---- MODULE Spec2Model ----
(***************************************************************************)
(* Model of zuul/merger/merger.py: the Repo wrapper around one local git   *)
(* working copy and the Merger that processes a queue of change items,     *)
(* publishing each item's speculative commit through refs/zuul references. *)
(***************************************************************************)
EXTENDS Integers, Sequences, FiniteSets, TLC

\* ------------------------------------------------------------------ bounds
\* Longest queue handed to mergeChanges.
MaxQueueLen == 2
\* Highest tip a remote branch reaches (every branch starts at tip 1).
MaxTip == 2
\* Number of calls (mergeChanges, getRepo) made on the orchestrator.
MaxCalls == 2

\* ------------------------------------------------------------- the inputs
Projects == {"p1", "p2"}
\* "main" exists on every remote; "nobr" exists on none.
Branches == {"main", "nobr"}
Refs == {"r1", "r2", "r3", "r4", "r5"}
NoUrl == "none"

\* zuul.model.MERGER_MERGE, MERGER_MERGE_RESOLVE, MERGER_CHERRY_PICK; the
\* value "BOGUS" is none of them.
MERGER_MERGE == "MERGE"
MERGER_MERGE_RESOLVE == "MERGE_RESOLVE"
MERGER_CHERRY_PICK == "CHERRY_PICK"

\* The change items a caller may enqueue (the dicts read by _mergeItem).
ItemDef ==
    [iA |-> [project |-> "p1", url |-> "u1", branch |-> "main", ref |-> "r1",
             refspec |-> "xA", merge_mode |-> MERGER_MERGE,
             connection_name |-> "c1"],
     iB |-> [project |-> "p1", url |-> NoUrl, branch |-> "main", ref |-> "r2",
             refspec |-> "xB", merge_mode |-> MERGER_CHERRY_PICK,
             connection_name |-> "c2"],
     iC |-> [project |-> "p2", url |-> "u2", branch |-> "main", ref |-> "r3",
             refspec |-> "xC", merge_mode |-> MERGER_MERGE_RESOLVE,
             connection_name |-> "c2"],
     iD |-> [project |-> "p2", url |-> "u2", branch |-> "main", ref |-> "r4",
             refspec |-> "xD", merge_mode |-> "BOGUS",
             connection_name |-> "c1"],
     iE |-> [project |-> "p1", url |-> "u1", branch |-> "nobr", ref |-> "r5",
             refspec |-> "xE", merge_mode |-> MERGER_MERGE,
             connection_name |-> "c1"]]

ItemNames == DOMAIN ItemDef

Queues == UNION {[1..n -> ItemNames] : n \in 0..MaxQueueLen}

\* Connections configured with an sshkey: _makeSSHWrappers writes a wrapper
\* file for exactly these names.
Wrappers == {"c1"}
NoSsh == "unset"

\* --------------------------------------------------------------- commits
\* A commit is the branch tip it descends from and the changes applied on
\* top of it, in order.  NoCommit is Python's None.
NoCommit == [branch |-> "none", tip |-> 0, changes |-> <<>>]

TipCommit(b, n) == [branch |-> b, tip |-> n, changes |-> <<>>]

Key(it) == <<it.project, it.branch>>
Keys == Projects \X Branches
MarkerNames == Branches \X Refs

NoRecent == [k \in Keys |-> NoCommit]
NoRefs == [m \in MarkerNames |-> NoCommit]
NoHeads == [b \in Branches |-> NoCommit]

\* ----------------------------------------------------------------- state
VARIABLES
    frame,        \* per caller: the locals and position of its mergeChanges
    repos,        \* Merger.repos: project -> Repo handle (gen 0: not registered)
    created,      \* history: number of Repo objects ever built per project
    disk,         \* per project working copy: its references and config
    remoteHeads,  \* the remotes' branch tips (0: no such branch)
    gitSsh,       \* os.environ['GIT_SSH'], process wide
    calls         \* history: number of calls made on the Merger

vars == <<frame, repos, created, disk, remoteHeads, gitSsh, calls>>

NoHandle == [gen |-> 0, url |-> NoUrl, initialized |-> FALSE]

\* A working copy: whether .git exists, whether user.email / user.name were
\* written, the local heads, the remote-tracking references of origin, the
\* commit HEAD resolves to, the reference HEAD is a symbolic reference to (a
\* local branch, "origin" for origin/HEAD, or "detached"), and refs/zuul.
NoDisk == [cloned |-> FALSE, configured |-> FALSE, heads |-> NoHeads,
           tracking |-> NoHeads, HEAD |-> NoCommit, attached |-> "detached",
           zuul |-> NoRefs]

NoRet == [kind |-> "none", commit |-> NoCommit]

\* history of a getRepo call made from outside: its arguments, whether the
\* project was registered before and after, and what came back
NoLookup == [project |-> "none", url |-> NoUrl, known |-> FALSE,
             outcome |-> "none", gen |-> 0, after |-> FALSE]

\* history of an updateRepo call: its arguments, whether the handle was
\* initialized when update() began, the GIT_SSH its fetch ran with, whether
\* a failure was logged and swallowed, and how the call ended
NoUpdate == [project |-> "none", url |-> NoUrl, initialized |-> FALSE,
             cred |-> NoSsh, swallowed |-> FALSE, outcome |-> "none"]

IdleFrame ==
    [pc |-> "idle", items |-> <<>>, idx |-> 0, recent |-> NoRecent,
     commit |-> NoCommit, base |-> NoCommit, pending |-> {},
     ret |-> NoRet, log |-> <<>>, done |-> <<>>,
     snapZuul |-> [p \in Projects |-> NoRefs], snapRecent |-> NoRecent,
     repeatOf |-> NoCommit, lookup |-> NoLookup, update |-> NoUpdate]

Init ==
    /\ frame = [t \in {1} |-> IdleFrame]
    /\ repos = [p \in Projects |-> NoHandle]
    /\ created = [p \in Projects |-> 0]
    /\ disk = [p \in Projects |-> NoDisk]
    /\ remoteHeads = [p \in Projects |->
                        [b \in Branches |-> IF b = "main" THEN 1 ELSE 0]]
    /\ gitSsh \in {NoSsh, "inherited"}
    /\ calls = 0

F(t) == frame[t]
It(f) == ItemDef[f.items[f.idx]]

\* history: one entry per version-control operation of the current call,
\* with the item it was issued for and the GIT_SSH in force at that moment
Log(f, op, res) ==
    [f EXCEPT !.log = Append(@, [i |-> f.idx, op |-> op, res |-> res,
                                 cred |-> gitSsh])]

\* ------------------------------------------------------------------ Repo
\* The remote-tracking references a fetch from a remote with heads origin
\* leaves.
Tracking(origin) ==
    [b \in Branches |->
       IF origin[b] = 0 THEN NoCommit ELSE TipCommit(b, origin[b])]

\* A clone checks out the remote's default branch ("main") as a local branch.
Cloned(p, d) ==
    [d EXCEPT !.cloned = TRUE,
              !.tracking = Tracking(remoteHeads[p]),
              !.heads = [b \in Branches |->
                           IF b = "main" THEN Tracking(remoteHeads[p])[b]
                           ELSE NoCommit],
              !.HEAD = TipCommit("main", remoteHeads[p]["main"]),
              !.attached = "main"]

\* What the environment may answer to one _ensure_cloned: the clone or the
\* config write can fail whenever they are attempted.
EnsureOutcomes(p) ==
    IF repos[p].initialized /\ disk[p].cloned
    THEN {"ok"}
    ELSE {"ok", "config_fail"}
         \cup (IF disk[p].cloned THEN {} ELSE {"clone_fail"})

\* (mutant) "self._initialized = True" is set before the clone and the
\* config write are attempted
ensure_cloned_MarkFirst(p, o) ==
    LET d == disk[p]
        d2 == IF d.cloned THEN d ELSE Cloned(p, d)
    IN  IF o = "ok"
        THEN [ok |-> TRUE, disk |-> [d2 EXCEPT !.configured = TRUE],
              initialized |-> TRUE, net |-> ~d.cloned]
        ELSE [ok |-> FALSE, disk |-> d, initialized |-> TRUE,
              net |-> ~d.cloned]

\* Repo._ensure_cloned under outcome o: whether it returned normally, the
\* working copy and _initialized afterwards, and whether it cloned (net).
ensure_cloned(p, o) ==
    LET h == repos[p]
        d == disk[p]
    IN  IF h.initialized /\ d.cloned
        THEN [ok |-> TRUE, disk |-> d, initialized |-> TRUE, net |-> FALSE]
        ELSE IF ~d.cloned /\ o = "clone_fail"
        THEN [ok |-> FALSE, disk |-> d, initialized |-> h.initialized,
              net |-> TRUE]
        ELSE LET d2 == IF d.cloned THEN d ELSE Cloned(p, d)
             IN  IF o = "config_fail"
                 THEN [ok |-> FALSE, disk |-> d2,
                       initialized |-> h.initialized, net |-> ~d.cloned]
                 ELSE [ok |-> TRUE, disk |-> [d2 EXCEPT !.configured = TRUE],
                       initialized |-> TRUE, net |-> ~d.cloned]

\* Repo.createRepoObject: it raises (UnboundLocalError at "return repo")
\* exactly when _ensure_cloned raised.
createRepoObject(p, o) == ensure_cloned(p, o)

\* the log entry of a clone attempted inside createRepoObject
LogClone(f, e, o) ==
    IF e.net THEN Log(f, "clone", IF o = "clone_fail" THEN "fail" ELSE "ok")
    ELSE f

\* the handle and working copy as createRepoObject leaves them
SetRepo(p, e) ==
    /\ repos' = [repos EXCEPT ![p].initialized = e.initialized]
    /\ disk' = [disk EXCEPT ![p] = e.disk]

\* Repo.update, successful: the fetch from origin (force=True) rewrites the
\* remote-tracking references.
update(d, origin) == [d EXCEPT !.tracking = Tracking(origin)]

\* Repo.reset, successful: after update(), every remote-tracking reference
\* becomes a local head (create_head force=True) and HEAD becomes a symbolic
\* reference to origin/HEAD, the remote's default branch.
reset(d, origin) ==
    LET u == update(d, origin)
    IN  [u EXCEPT !.heads = [b \in Branches |->
                               IF u.tracking[b] = NoCommit THEN d.heads[b]
                               ELSE u.tracking[b]],
                  !.HEAD = u.tracking["main"],
                  !.attached = "origin"]

\* Repo.getBranchHead: repo.heads[branch].commit, NoCommit standing for the
\* IndexError of a branch that is no local head.
getBranchHead(d, branch) == d.heads[branch]

\* (mutant) the lookup misses the refs/zuul namespace
getCommitFromRef_NoZuul(d, refname) == NoCommit

\* Repo.getCommitFromRef
getCommitFromRef(d, refname) == d.zuul[refname]

\* (mutant) HEAD is moved without being detached
checkout_Attached(d, ref) == [d EXCEPT !.HEAD = ref]

\* Repo.checkout, successful: "repo.head.reference = ref" with ref a commit
\* leaves HEAD detached at it
checkout(d, ref) == [d EXCEPT !.HEAD = ref, !.attached = "detached"]

\* (mutant) the retry is taken after any failure of the first attempt
fetch_RetryAny(o1, o2) == IF o1 # "ok" THEN <<o1, o2>> ELSE <<o1>>

\* Repo.fetch: the attempts made against the remote when the first answers
\* o1 and a second (if any) answers o2; "transient" is the AssertionError.
FetchOutcomes == {"ok", "transient", "hard"}
fetch(o1, o2) == IF o1 = "transient" THEN <<o1, o2>> ELSE <<o1>>

\* Repo.merge / Repo.cherryPick after the fetch, successful: a new commit on
\* top of the checked-out HEAD; git moves the reference HEAD is attached to
applyChange(d, refspec) ==
    LET c == [d.HEAD EXCEPT !.changes = Append(@, refspec)]
    IN  [d EXCEPT !.HEAD = c,
                  !.heads = [b \in Branches |->
                               IF b = d.attached THEN c ELSE @[b]],
                  !.tracking = [b \in Branches |->
                                  IF d.attached = "origin" /\ b = "main"
                                  THEN c ELSE @[b]]]

\* Repo.createZuulRef -> ZuulReference.create(repo, ref, commit): without
\* force=True an existing reference pointing elsewhere is an OSError.
CanCreateRef(d, refname, commit) ==
    d.zuul[refname] = NoCommit \/ d.zuul[refname] = commit

\* (mutant) the reference is not written
createZuulRef_NotWritten(d, refname, commit) == d

\* Repo.createZuulRef, successful
createZuulRef(d, refname, commit) == [d EXCEPT !.zuul[refname] = commit]

\* ---------------------------------------------------------------- Merger
\* (mutant) a url given always builds a new handle
getRepo_NoReuse(project, url) ==
    IF url # NoUrl THEN "add"
    ELSE IF repos[project].gen # 0 THEN "existing"
    ELSE "raise"

\* Merger.getRepo: which of its three ways out is taken
getRepo(project, url) ==
    IF repos[project].gen # 0 THEN "existing"
    ELSE IF url = NoUrl THEN "raise"
    ELSE "add"

\* Merger.addProject: Repo.__init__ swallows the failure of _ensure_cloned,
\* so a handle is always built and registered.
addProject(project, url, e) ==
    /\ repos' = [repos EXCEPT ![project] =
                   [gen |-> created[project] + 1, url |-> url,
                    initialized |-> e.initialized]]
    /\ created' = [created EXCEPT ![project] = @ + 1]
    /\ disk' = [disk EXCEPT ![project] = e.disk]

\* (mutant) no "elif ... del": without a wrapper GIT_SSH is left as it was
setGitSsh_NoClear(connection_name) ==
    IF connection_name \in Wrappers THEN connection_name ELSE gitSsh

\* (mutant) the wrapper file is never found
setGitSsh_NoWrapper(connection_name) == NoSsh

\* Merger._setGitSsh: the value of GIT_SSH it leaves
setGitSsh(connection_name) ==
    IF connection_name \in Wrappers THEN connection_name ELSE NoSsh

\* (mutant) no final else: an unknown mode falls through to a plain merge
ModeOp_NoElse(mode) ==
    IF mode = MERGER_MERGE_RESOLVE THEN "merge_resolve"
    ELSE IF mode = MERGER_CHERRY_PICK THEN "cherry_pick"
    ELSE "merge"

\* Merger._mergeChange: the dispatch on item['merge_mode']
ModeOp(mode) ==
    IF mode = MERGER_MERGE THEN "merge"
    ELSE IF mode = MERGER_MERGE_RESOLVE THEN "merge_resolve"
    ELSE IF mode = MERGER_CHERRY_PICK THEN "cherry_pick"
    ELSE "unsupported"

\* an exception leaving mergeChanges
Raise(f) ==
    [f EXCEPT !.pc = "idle", !.ret = [kind |-> "raised", commit |-> NoCommit]]

\* (mutant) the loop goes on to the next item after a failed one
ItemReturn_Continue(f, c, hit) ==
    [f EXCEPT !.commit = c, !.pc = "loop",
              !.done = Append(@, [commit |-> c, base |-> f.base,
                                  hit |-> hit])]

\* mergeChanges on the value _mergeItem returned: "if not commit: return
\* None", else on to the next item
ItemReturn(f, c, hit) ==
    LET g == [f EXCEPT !.commit = c,
                       !.done = Append(@, [commit |-> c, base |-> f.base,
                                           hit |-> hit])]
    IN  IF c = NoCommit
        THEN [g EXCEPT !.pc = "idle",
                       !.ret = [kind |-> "None", commit |-> NoCommit]]
        ELSE [g EXCEPT !.pc = "loop"]

\* (mutant) "recent[key] = commit" placed before "if not commit"
AfterMergeChange_RecordFirst(f, c) ==
    LET r == [f.recent EXCEPT ![Key(It(f))] = c]
    IN  IF c = NoCommit
        THEN ItemReturn([f EXCEPT !.recent = r], NoCommit, FALSE)
        ELSE [f EXCEPT !.commit = c, !.recent = r, !.pc = "publish",
                       !.pending = {k \in Keys : r[k] # NoCommit}]

\* _mergeItem on the value _mergeChange returned: "if not commit: return
\* None", else the cache is updated and the publication loop starts
AfterMergeChange(f, c) ==
    IF c = NoCommit THEN ItemReturn(f, NoCommit, FALSE)
    ELSE LET r == [f.recent EXCEPT ![Key(It(f))] = c]
         IN  [f EXCEPT !.commit = c, !.recent = r, !.pc = "publish",
                       !.pending = {k \in Keys : r[k] # NoCommit}]

\* _mergeItem, "if commit:" after the marker lookup
MarkerFound(c) == c # NoCommit

\* (mutant) the cache is ignored: the base is always the branch tip
NeedsReset_Always(recent, key) == TRUE

\* (mutant) the cache is trusted even when it has no entry
NeedsReset_Never(recent, key) == FALSE

\* _mergeItem, "base = recent.get(key); if not base:"
NeedsReset(recent, key) == recent[key] = NoCommit

\* ------------------------------------------------------------- the actions
Put(t, f) == frame' = [frame EXCEPT ![t] = f]

\* mergeChanges is entered: recent = {}, commit = None
StartCall(t, q) ==
    /\ F(t).pc = "idle"
    /\ calls < MaxCalls
    /\ calls' = calls + 1
    /\ Put(t, [IdleFrame EXCEPT
                 !.pc = "loop", !.items = q,
                 !.repeatOf = IF F(t).ret.kind = "commit" /\ F(t).items = q
                              THEN F(t).ret.commit ELSE NoCommit])
    /\ UNCHANGED <<repos, created, disk, remoteHeads, gitSsh>>

\* "for item in items": the next item enters _mergeItem
LoopNext(t) ==
    LET f == F(t)
    IN  /\ f.pc = "loop"
        /\ f.idx < Len(f.items)
        /\ Put(t, [f EXCEPT !.idx = @ + 1, !.pc = "setssh",
                            !.base = NoCommit, !.pending = {},
                            !.snapZuul = [p \in Projects |-> disk[p].zuul],
                            !.snapRecent = f.recent])
        /\ UNCHANGED <<repos, created, disk, remoteHeads, gitSsh, calls>>

\* "return commit.hexsha": an AttributeError when no item was processed
LoopReturn(t) ==
    LET f == F(t)
    IN  /\ f.pc = "loop"
        /\ f.idx = Len(f.items)
        /\ Put(t, IF f.commit = NoCommit THEN Raise(f)
                  ELSE [f EXCEPT !.pc = "idle",
                                 !.ret = [kind |-> "commit",
                                          commit |-> f.commit]])
        /\ UNCHANGED <<repos, created, disk, remoteHeads, gitSsh, calls>>

\* _mergeItem: self._setGitSsh(item['connection_name'])
SetGitSsh(t) ==
    LET f == F(t)
    IN  /\ f.pc = "setssh"
        /\ gitSsh' = setGitSsh(It(f).connection_name)
        /\ Put(t, [f EXCEPT !.pc = "getrepo"])
        /\ UNCHANGED <<repos, created, disk, remoteHeads, calls>>

\* _mergeItem: repo = self.getRepo(item['project'], item['url'])
GetRepoItem(t) ==
    LET f == F(t)
        p == It(f).project
        k == getRepo(p, It(f).url)
    IN  /\ f.pc = "getrepo"
        /\ \/ /\ k = "existing"
              /\ Put(t, [f EXCEPT !.pc = "lookup"])
              /\ UNCHANGED <<repos, created, disk>>
           \/ /\ k = "raise"
              /\ Put(t, Raise(f))
              /\ UNCHANGED <<repos, created, disk>>
           \/ /\ k = "add"
              /\ \E o \in EnsureOutcomes(p) :
                   LET e == ensure_cloned(p, o)
                   IN  /\ addProject(p, It(f).url, e)
                       /\ Put(t, [LogClone(f, e, o) EXCEPT !.pc = "lookup"])
        /\ UNCHANGED <<remoteHeads, gitSsh, calls>>

\* _mergeItem: the marker lookup, the short-circuit on a marker found, and
\* otherwise the choice of the base
MarkerLookup(t) ==
    LET f == F(t)
        it == It(f)
        p == it.project
    IN  /\ f.pc = "lookup"
        /\ \E o \in EnsureOutcomes(p) :
             LET e == createRepoObject(p, o)
                 g == LogClone(f, e, o)
                 c == getCommitFromRef(e.disk, <<it.branch, it.ref>>)
             IN  /\ SetRepo(p, e)
                 /\ Put(t, IF ~e.ok THEN Raise(Log(g, "marker_lookup", "raise"))
                           ELSE IF MarkerFound(c)
                           THEN ItemReturn(
                                  [Log(g, "marker_lookup", "hit")
                                     EXCEPT !.recent[Key(it)] = c], c, TRUE)
                           ELSE IF NeedsReset(f.recent, Key(it))
                           THEN [Log(g, "marker_lookup", "miss")
                                   EXCEPT !.pc = "reset"]
                           ELSE [Log(g, "marker_lookup", "miss")
                                   EXCEPT !.pc = "checkout",
                                          !.base = f.recent[Key(it)]])
        /\ UNCHANGED <<created, remoteHeads, gitSsh, calls>>

\* _mergeItem: repo.reset() inside try/except.  The fetch of update() sees
\* the remote as it is by then: other people may have pushed (tip n).
Reset(t) ==
    LET f == F(t)
        p == It(f).project
    IN  /\ f.pc = "reset"
        /\ \E o \in EnsureOutcomes(p), r \in {"ok", "fetch_fail", "late_fail"},
              n \in remoteHeads[p]["main"]..MaxTip :
             LET e == createRepoObject(p, o)
                 g == LogClone(f, e, o)
             IN  /\ remoteHeads' = [remoteHeads EXCEPT ![p]["main"] = n]
                 /\ IF ~e.ok \/ r = "fetch_fail"
                    THEN /\ SetRepo(p, e)
                         /\ Put(t, ItemReturn(Log(g, "reset", "fail"),
                                              NoCommit, FALSE))
                    ELSE /\ SetRepo(p, [e EXCEPT
                                          !.disk = reset(e.disk, remoteHeads'[p])])
                         /\ Put(t, IF r = "ok"
                                   THEN [Log(g, "reset", "ok")
                                           EXCEPT !.pc = "branchhead"]
                                   ELSE ItemReturn(Log(g, "reset", "fail"),
                                                   NoCommit, FALSE))
        /\ UNCHANGED <<created, gitSsh, calls>>

\* _mergeItem: base = repo.getBranchHead(item['branch']), outside any try
GetBranchHead(t) ==
    LET f == F(t)
        it == It(f)
        b == getBranchHead(disk[it.project], it.branch)
    IN  /\ f.pc = "branchhead"
        /\ Put(t, IF b = NoCommit THEN Raise(Log(f, "branch_head", "raise"))
                  ELSE [Log(f, "branch_head", "ok")
                          EXCEPT !.pc = "checkout", !.base = b])
        /\ UNCHANGED <<repos, created, disk, remoteHeads, gitSsh, calls>>

\* _mergeChange: repo.checkout(ref) inside try/except; the hard reset that
\* follows "repo.head.reference = ref" may be the step that fails
Checkout(t) ==
    LET f == F(t)
        p == It(f).project
    IN  /\ f.pc = "checkout"
        /\ \E o \in EnsureOutcomes(p), r \in {"ok", "fail", "late_fail"} :
             LET e == createRepoObject(p, o)
                 g == LogClone(f, e, o)
                 moved == [e EXCEPT !.disk = checkout(e.disk, f.base)]
             IN  IF ~e.ok \/ r = "fail"
                 THEN /\ SetRepo(p, e)
                      /\ Put(t, AfterMergeChange(Log(g, "checkout", "fail"),
                                                 NoCommit))
                 ELSE /\ SetRepo(p, moved)
                      /\ Put(t, IF r = "ok"
                                THEN [Log(g, "checkout", "ok")
                                        EXCEPT !.pc = "apply"]
                                ELSE AfterMergeChange(
                                       Log(g, "checkout", "fail"), NoCommit))
        /\ UNCHANGED <<created, remoteHeads, gitSsh, calls>>

\* _mergeChange: "raise Exception('Unsupported merge mode')", caught by the
\* except Exception below it
Unsupported(t) ==
    LET f == F(t)
    IN  /\ f.pc = "apply"
        /\ ModeOp(It(f).merge_mode) = "unsupported"
        /\ Put(t, AfterMergeChange(Log(f, "unsupported", "fail"), NoCommit))
        /\ UNCHANGED <<repos, created, disk, remoteHeads, gitSsh, calls>>

\* Repo.merge / Repo.cherryPick: self.fetch(ref)
Fetch(t) ==
    LET f == F(t)
    IN  /\ f.pc = "apply"
        /\ ModeOp(It(f).merge_mode) # "unsupported"
        /\ \E o1 \in FetchOutcomes, o2 \in FetchOutcomes :
             LET a == fetch(o1, o2)
                 g == IF Len(a) = 1 THEN Log(f, "fetch", a[1])
                      ELSE Log(Log(f, "fetch", a[1]), "fetch", a[2])
             IN  Put(t, IF a[Len(a)] = "ok" THEN [g EXCEPT !.pc = "merge"]
                        ELSE AfterMergeChange(g, NoCommit))
        /\ UNCHANGED <<repos, created, disk, remoteHeads, gitSsh, calls>>

\* Repo.merge / Repo.cherryPick: repo.git.merge / repo.git.cherry_pick of
\* FETCH_HEAD, then _mergeItem's "recent[key] = commit"
MergeOrPick(t) ==
    LET f == F(t)
        it == It(f)
        p == it.project
        op == IF ModeOp(it.merge_mode) = "cherry_pick" THEN "cherry_pick"
              ELSE "merge"
    IN  /\ f.pc = "merge"
        /\ \E r \in {"ok", "conflict"} :
             IF r = "ok"
             THEN LET d == applyChange(disk[p], it.refspec)
                  IN  /\ disk' = [disk EXCEPT ![p] = d]
                      /\ Put(t, AfterMergeChange(Log(f, op, "ok"), d.HEAD))
             ELSE /\ UNCHANGED disk
                  /\ Put(t, AfterMergeChange(Log(f, op, "fail"), NoCommit))
        /\ UNCHANGED <<repos, created, remoteHeads, gitSsh, calls>>

\* _mergeItem: one round of "for key, mrc in recent.items()": getRepo by
\* name, createZuulRef; after the last round the item returns its commit
PublishOne(t) ==
    LET f == F(t)
        it == It(f)
    IN  /\ f.pc = "publish"
        /\ \E k \in f.pending, r \in {"ok", "fail"} :
             LET p == k[1]
                 name == <<k[2], it.ref>>
                 mrc == f.recent[k]
                 left == f.pending \ {k}
             IN  IF /\ getRepo(p, NoUrl) = "existing"
                    /\ repos[p].initialized /\ disk[p].cloned
                    /\ CanCreateRef(disk[p], name, mrc)
                    /\ r = "ok"
                 THEN /\ disk' = [disk EXCEPT
                                    ![p] = createZuulRef(disk[p], name, mrc)]
                      /\ Put(t, IF left = {}
                                THEN ItemReturn(
                                       [Log(f, "marker_write", "ok")
                                          EXCEPT !.pending = left],
                                       f.commit, FALSE)
                                ELSE [Log(f, "marker_write", "ok")
                                        EXCEPT !.pending = left])
                 ELSE /\ UNCHANGED disk
                      /\ Put(t, ItemReturn(Log(f, "marker_write", "fail"),
                                           NoCommit, FALSE))
        /\ UNCHANGED <<repos, created, remoteHeads, gitSsh, calls>>

\* getRepo called from outside (registerOrGetRepository)
GetRepoCall(t, project, url) ==
    LET k == getRepo(project, url)
        look(outcome, gen) ==
            [IdleFrame EXCEPT !.lookup =
               [project |-> project, url |-> url,
                known |-> repos[project].gen # 0, outcome |-> outcome,
                gen |-> gen, after |-> repos'[project].gen # 0]]
    IN  /\ F(t).pc = "idle"
        /\ calls < MaxCalls
        /\ calls' = calls + 1
        /\ \/ /\ k = "existing"
              /\ UNCHANGED <<repos, created, disk>>
              /\ Put(t, look("handle", repos[project].gen))
           \/ /\ k = "raise"
              /\ UNCHANGED <<repos, created, disk>>
              /\ Put(t, look("raised", 0))
           \/ /\ k = "add"
              /\ \E o \in EnsureOutcomes(project) :
                   addProject(project, url, ensure_cloned(project, o))
              /\ Put(t, look("handle", repos'[project].gen))
        /\ UNCHANGED <<remoteHeads, gitSsh>>

\* updateRepo is entered: repo = self.getRepo(project, url), outside the try
UpdateRepoCall(t, project, url) ==
    LET k == getRepo(project, url)
        upd(pc, outcome) ==
            [IdleFrame EXCEPT !.pc = pc,
                              !.update = [NoUpdate EXCEPT !.project = project,
                                                          !.url = url,
                                                          !.outcome = outcome]]
    IN  /\ F(t).pc = "idle"
        /\ calls < MaxCalls
        /\ calls' = calls + 1
        /\ \/ /\ k = "existing"
              /\ UNCHANGED <<repos, created, disk>>
              /\ Put(t, upd("update", "none"))
           \/ /\ k = "raise"
              /\ UNCHANGED <<repos, created, disk>>
              /\ Put(t, upd("idle", "raised"))
           \/ /\ k = "add"
              /\ \E o \in EnsureOutcomes(project) :
                   addProject(project, url, ensure_cloned(project, o))
              /\ Put(t, upd("update", "none"))
        /\ UNCHANGED <<remoteHeads, gitSsh>>

\* updateRepo: repo.update() inside try/except Exception; Repo.update is
\* createRepoObject and then the fetch from origin, which sees the remote as
\* it is by then (tip n)
Update(t) ==
    LET f == F(t)
        p == f.update.project
    IN  /\ f.pc = "update"
        /\ \E o \in EnsureOutcomes(p), r \in {"ok", "fetch_fail"},
              n \in remoteHeads[p]["main"]..MaxTip :
             LET e == createRepoObject(p, o)
             IN  /\ remoteHeads' = [remoteHeads EXCEPT ![p]["main"] = n]
                 /\ SetRepo(p, IF e.ok /\ r = "ok"
                               THEN [e EXCEPT
                                       !.disk = update(e.disk, remoteHeads'[p])]
                               ELSE e)
                 /\ Put(t, [f EXCEPT
                              !.pc = "idle",
                              !.update = [@ EXCEPT
                                 !.initialized = repos[p].initialized,
                                 !.cred = gitSsh,
                                 !.swallowed = ~e.ok \/ r = "fetch_fail",
                                 !.outcome = "returned"]])
        /\ UNCHANGED <<created, gitSsh, calls>>

Callers == DOMAIN frame

Next ==
    \/ \E t \in Callers, q \in Queues : StartCall(t, q)
    \/ \E t \in Callers : LoopNext(t)
    \/ \E t \in Callers : LoopReturn(t)
    \/ \E t \in Callers : SetGitSsh(t)
    \/ \E t \in Callers : GetRepoItem(t)
    \/ \E t \in Callers : MarkerLookup(t)
    \/ \E t \in Callers : Reset(t)
    \/ \E t \in Callers : GetBranchHead(t)
    \/ \E t \in Callers : Checkout(t)
    \/ \E t \in Callers : Unsupported(t)
    \/ \E t \in Callers : Fetch(t)
    \/ \E t \in Callers : MergeOrPick(t)
    \/ \E t \in Callers : PublishOne(t)
    \/ \E t \in Callers, p \in Projects, u \in {NoUrl, "u1"} :
         GetRepoCall(t, p, u)
    \/ \E t \in Callers, p \in Projects, u \in {NoUrl, "u1"} :
         UpdateRepoCall(t, p, u)
    \/ \E t \in Callers : Update(t)

Spec == Init /\ [][Next]_vars

\* ------------------------------------------------- two concurrent callers
\* Two threads of one process share the Merger (self.repos, os.environ) and
\* each calls mergeChanges once, on a queue of one item of its own project.
\* A thread can be preempted between any two version-control operations.
ConcCallers == {1, 2}
ConcQueues ==
    [t \in ConcCallers |->
       {q \in Queues : /\ Len(q) = 1
                       /\ ItemDef[q[1]].project = (IF t = 1 THEN "p1" ELSE "p2")
                       /\ ItemDef[q[1]].url # NoUrl}]

InitConc ==
    /\ frame = [t \in ConcCallers |-> IdleFrame]
    /\ repos = [p \in Projects |-> NoHandle]
    /\ created = [p \in Projects |-> 0]
    /\ disk = [p \in Projects |-> NoDisk]
    /\ remoteHeads = [p \in Projects |->
                        [b \in Branches |-> IF b = "main" THEN 1 ELSE 0]]
    /\ gitSsh \in {NoSsh, "inherited"}
    /\ calls = 0

StartConc(t, q) ==
    /\ F(t).items = <<>>
    /\ StartCall(t, q)

NextConc ==
    \/ \E t \in Callers : \E q \in ConcQueues[t] : StartConc(t, q)
    \/ \E t \in Callers : LoopNext(t)
    \/ \E t \in Callers : LoopReturn(t)
    \/ \E t \in Callers : SetGitSsh(t)
    \/ \E t \in Callers : GetRepoItem(t)
    \/ \E t \in Callers : MarkerLookup(t)
    \/ \E t \in Callers : Reset(t)
    \/ \E t \in Callers : GetBranchHead(t)
    \/ \E t \in Callers : Checkout(t)
    \/ \E t \in Callers : Unsupported(t)
    \/ \E t \in Callers : Fetch(t)
    \/ \E t \in Callers : MergeOrPick(t)
    \/ \E t \in Callers : PublishOne(t)

SpecConc == InitConc /\ [][NextConc]_vars

\* ------------------------------------------------------------ the claims
Finished(f) == f.pc = "idle" /\ f.ret.kind # "none"
LogOf(f, k) == SelectSeq(f.log, LAMBDA x : x.i = k)

\* C1: a mergeChanges call that repeats, right after it, a call that
\* returned a commit on the same queue returns that commit again, resolves
\* every item by the marker short-circuit and performs no reset, checkout,
\* fetch, merge, cherry-pick, clone or marker write.
C1_Idempotent ==
    \A t \in Callers :
      LET f == frame[t]
      IN  f.repeatOf # NoCommit =>
            /\ \A n \in 1..Len(f.log) :
                 f.log[n].op = "marker_lookup" /\ f.log[n].res = "hit"
            /\ \A k \in 1..Len(f.done) : f.done[k].hit
            /\ f.pc = "idle" =>
                 f.ret = [kind |-> "commit", commit |-> f.repeatOf]

\* a repeated call over a queue of two items has returned
C1_Witness ==
    \E t \in Callers :
      /\ frame[t].repeatOf # NoCommit
      /\ Finished(frame[t])
      /\ Len(frame[t].items) = 2
      /\ frame[t].items[1] # frame[t].items[2]

\* the log entries that record the failure of an item
ItemFailure(f, n) ==
    /\ f.log[n].op # "clone"
    /\ f.log[n].res \in {"fail", "hard", "transient"}
    /\ ~(/\ f.log[n].op = "fetch" /\ f.log[n].res = "transient"
         /\ n < Len(f.log) /\ f.log[n + 1].op = "fetch")

\* C2: items are processed in queue order; a failed item (reset, checkout,
\* fetch, merge, cherry-pick, unsupported mode, marker write) ends the call
\* there with the failure value, no later item is touched, and a commit is
\* returned only when every item produced one.
C2_FailFast ==
    \A t \in Callers :
      LET f == frame[t]
      IN  /\ \A m, n \in 1..Len(f.log) : m < n => f.log[m].i <= f.log[n].i
          /\ \A n \in 1..Len(f.log) : f.log[n].i \in 1..f.idx
          /\ \A n \in 1..Len(f.log) :
               ItemFailure(f, n) =>
                 /\ n = Len(f.log)
                 /\ f.log[n].i = f.idx
                 /\ f.pc = "idle"
                 /\ f.ret = [kind |-> "None", commit |-> NoCommit]
          /\ \A k \in 1..Len(f.done) :
               f.done[k].commit = NoCommit =>
                 k = f.idx /\ f.pc = "idle" /\ f.ret.kind = "None"
          /\ (f.pc = "idle" /\ f.ret.kind = "commit") =>
               /\ f.idx = Len(f.items)
               /\ Len(f.done) = Len(f.items)
               /\ \A k \in 1..Len(f.done) : f.done[k].commit # NoCommit
               /\ f.ret.commit = f.done[Len(f.done)].commit

\* the first of two items failed and the call is over
C2_Witness ==
    \E t \in Callers :
      LET f == frame[t]
      IN  /\ Finished(f)
          /\ Len(f.items) = 2
          /\ f.idx = 1
          /\ f.ret.kind = "None"
          /\ \E n \in 1..Len(f.log) : ItemFailure(f, n)

ItemAt(f, k) == ItemDef[f.items[k]]
IsPrefix(a, b) == Len(a) <= Len(b) /\ SubSeq(b, 1, Len(a)) = a
HasChange(c, x) == \E n \in 1..Len(c.changes) : c.changes[n] = x
\* the earlier items of the queue with the key of item k
Earlier(f, k) == {j \in 1..(k - 1) : Key(ItemAt(f, j)) = Key(ItemAt(f, k))}
Max(S) == CHOOSE x \in S : \A y \in S : y <= x

\* C3: when mergeChanges returns a commit, the commit recorded for each item
\* holds the item's change on top of the commits recorded for every earlier
\* item of the queue with the same (project, branch).
C3_Stacked ==
    \A t \in Callers :
      LET f == frame[t]
      IN  (f.pc = "idle" /\ f.ret.kind = "commit") =>
            \A k \in 1..Len(f.done) :
              /\ HasChange(f.done[k].commit, ItemAt(f, k).refspec)
              /\ \A j \in Earlier(f, k) :
                   IsPrefix(f.done[j].commit.changes,
                            f.done[k].commit.changes)

\* C4: an item that is merged takes as base the commit of the latest earlier
\* item of the queue with its (project, branch) when there is one (so for
\* two consecutive such items, the first one's commit), and otherwise the
\* tip of its branch as the remote had it at the item's reset.
C4_BaseSelection ==
    \A t \in Callers :
      LET f == frame[t]
          at(k) == IF k <= Len(f.done) THEN f.done[k].base ELSE f.base
          merged(k) == IF k <= Len(f.done) THEN ~f.done[k].hit
                       ELSE f.pc \in {"checkout", "apply", "merge", "publish"}
      IN  \A k \in 1..f.idx :
            (merged(k) /\ at(k) # NoCommit) =>
              IF Earlier(f, k) # {}
              THEN at(k) = f.done[Max(Earlier(f, k))].commit
              ELSE /\ at(k).changes = <<>>
                   /\ at(k).branch = ItemAt(f, k).branch
                   /\ \E n \in 1..Len(f.log) :
                        f.log[n] = [i |-> k, op |-> "reset", res |-> "ok",
                                    cred |-> f.log[n].cred]
                   /\ k = f.idx /\ f.pc # "idle" =>
                        at(k).tip = remoteHeads[ItemAt(f, k).project]
                                               [ItemAt(f, k).branch]

\* two consecutive items on one (project, branch), both merged, and the
\* first one based on a tip that had moved since the clone
C4_Witness ==
    \E t \in Callers :
      LET f == frame[t]
      IN  /\ Finished(f) /\ f.ret.kind = "commit"
          /\ Len(f.done) = 2
          /\ Key(ItemAt(f, 1)) = Key(ItemAt(f, 2))
          /\ ~f.done[1].hit /\ ~f.done[2].hit
          /\ f.done[1].base.tip = 2
          /\ f.done[2].base = f.done[1].commit

\* C5: after an item succeeded, every (project, branch) in the cache has in
\* its project the marker branch/<the item's ref> at the cached commit.
C5_Propagated ==
    \A t \in Callers :
      LET f == frame[t]
      IN  (/\ f.idx >= 1
           /\ f.pc = "loop" \/ (f.pc = "idle" /\ f.ret.kind = "commit")) =>
            \A k \in Keys :
              f.recent[k] # NoCommit =>
                disk[k[1]].zuul[<<k[2], It(f).ref>>] = f.recent[k]

\* the log entry on which _mergeChange gave up
ApplyFailed(f) ==
    /\ Len(f.log) > 0
    /\ ItemFailure(f, Len(f.log))
    /\ f.log[Len(f.log)].op \in
         {"checkout", "fetch", "merge", "cherry_pick", "unsupported"}

\* C6: when applying the change fails (checkout, fetch, merge or cherry-pick
\* conflict, unsupported mode), mergeChanges returns the failure value and
\* the item has written no marker and has not updated the cache.
C6_ConflictNoMarker ==
    \A t \in Callers :
      LET f == frame[t]
      IN  ApplyFailed(f) =>
            /\ f.pc = "idle"
            /\ f.ret = [kind |-> "None", commit |-> NoCommit]
            /\ \A p \in Projects : disk[p].zuul = f.snapZuul[p]
            /\ f.recent = f.snapRecent

\* a cherry-pick conflict on the second item of a (project, branch), whose
\* first item had published its marker
C6_Witness ==
    \E t \in Callers :
      LET f == frame[t]
      IN  /\ ApplyFailed(f)
          /\ f.log[Len(f.log)].op = "cherry_pick"
          /\ f.idx = 2
          /\ f.snapRecent[Key(It(f))] # NoCommit

SupportedModes == {MERGER_MERGE, MERGER_MERGE_RESOLVE, MERGER_CHERRY_PICK}
OpsOf(f, k, ops) == SelectSeq(f.log, LAMBDA x : x.i = k /\ x.op \in ops)

\* C7 (as claimed): for an item whose merge_mode is unsupported no fetch,
\* reset, checkout, merge or cherry-pick is attempted.
C7_NoVcsOperation ==
    \A t \in Callers :
      LET f == frame[t]
      IN  \A k \in 1..f.idx :
            ItemAt(f, k).merge_mode \notin SupportedModes =>
              OpsOf(f, k, {"fetch", "reset", "checkout", "merge",
                           "cherry_pick"}) = <<>>

\* C7 (amended): an item whose merge_mode is unsupported and that is not
\* resolved by an existing marker never yields a commit; it fails at the
\* mode dispatch, right after the checkout of its base, and no fetch, merge,
\* cherry-pick or marker write is attempted for it.
C7_UnsupportedMode ==
    \A t \in Callers :
      LET f == frame[t]
      IN  \A k \in 1..f.idx :
            ItemAt(f, k).merge_mode \notin SupportedModes =>
              /\ OpsOf(f, k, {"fetch", "merge", "cherry_pick",
                              "marker_write"}) = <<>>
              /\ k <= Len(f.done) =>
                   f.done[k].hit \/ f.done[k].commit = NoCommit
              /\ (k = f.idx /\ f.pc # "idle") =>
                   f.pc \notin {"merge", "publish"}
              /\ \A n \in 1..Len(f.log) :
                   (f.log[n].i = k /\ f.log[n].op = "checkout"
                      /\ f.log[n].res = "ok") =>
                     \/ n = Len(f.log) /\ f.pc = "apply"
                     \/ /\ n + 1 = Len(f.log)
                        /\ f.log[n + 1].op = "unsupported"
                        /\ f.pc = "idle"
                        /\ f.ret = [kind |-> "None", commit |-> NoCommit]

\* an item of unsupported mode was reset and checked out, then refused
C7_Witness ==
    \E t \in Callers :
      LET f == frame[t]
      IN  /\ Finished(f)
          /\ f.idx >= 1 /\ Len(f.log) > 0
          /\ It(f).merge_mode \notin SupportedModes
          /\ Len(OpsOf(f, f.idx, {"reset", "checkout"})) = 2
          /\ f.log[Len(f.log)].op = "unsupported"

\* C8: a failure while an item is processed reaches the caller of
\* mergeChanges as the failure value, never as an exception.
C8_SingleFailureSignal ==
    \A t \in Callers :
      (frame[t].pc = "idle" /\ frame[t].idx >= 1) =>
        frame[t].ret.kind # "raised"

\* the fetch of item k's refspec makes at most two attempts, the second only
\* after a transient failure of the first, and a failure of the last attempt
\* made fails the item
FetchBounded(f, k) ==
    LET a == OpsOf(f, k, {"fetch"})
    IN  /\ Len(a) <= 2
        /\ Len(a) >= 1 => (Len(a) = 2 <=> a[1].res = "transient")
        /\ (Len(a) >= 1 /\ a[Len(a)].res # "ok") =>
             /\ k = f.idx /\ f.pc = "idle"
             /\ f.ret = [kind |-> "None", commit |-> NoCommit]
             /\ f.log[Len(f.log)] = a[Len(a)]

\* C9 (as claimed): one fetch makes at most two attempts, the second only
\* after a transient failure; no other operation of the merge path is
\* attempted twice for an item.
C9_NoOtherRetry ==
    \A t \in Callers :
      \A k \in 1..frame[t].idx :
        /\ FetchBounded(frame[t], k)
        /\ \A op \in {"clone", "marker_lookup", "reset", "branch_head",
                      "checkout", "merge", "cherry_pick", "unsupported"} :
             Len(OpsOf(frame[t], k, {op})) <= 1

\* C9 (amended): as claimed for the fetch and for every operation but the
\* clone: a clone that failed when the handle was built is attempted once
\* more, by the marker lookup that follows.
C9_BoundedRetry ==
    \A t \in Callers :
      \A k \in 1..frame[t].idx :
        LET c == OpsOf(frame[t], k, {"clone"})
        IN  /\ FetchBounded(frame[t], k)
            /\ \A op \in {"marker_lookup", "reset", "branch_head",
                          "checkout", "merge", "cherry_pick", "unsupported"} :
                 Len(OpsOf(frame[t], k, {op})) <= 1
            /\ Len(c) <= 2
            /\ Len(c) = 2 =>
                 /\ c[1].res = "fail"
                 /\ LogOf(frame[t], k)[1] = c[1]
                 /\ LogOf(frame[t], k)[2] = c[2]
                 /\ Len(LogOf(frame[t], k)) >= 3 =>
                      LogOf(frame[t], k)[3].op = "marker_lookup"

\* a transient failure was retried once, with success, and the item merged
C9_Witness ==
    \E t \in Callers :
      LET f == frame[t]
          a == OpsOf(f, 1, {"fetch"})
      IN  /\ Finished(f) /\ f.ret.kind = "commit"
          /\ Len(a) = 2 /\ a[1].res = "transient" /\ a[2].res = "ok"

\* C10: at most one handle is ever built per project and it stays the
\* registered one; a lookup from outside returns that handle; without a url
\* it succeeds exactly when the project was registered, and when it fails
\* nothing is registered.
C10_Registry ==
    /\ \A p \in Projects :
         /\ created[p] <= 1
         /\ repos[p].gen = created[p]
    /\ \A t \in Callers :
         LET l == frame[t].lookup
         IN  l.outcome # "none" =>
               /\ l.outcome = "handle" =>
                    l.after /\ l.gen = 1 /\ repos[l.project].gen = l.gen
               /\ l.known => l.outcome = "handle"
               /\ l.url = NoUrl => (l.outcome = "handle" <=> l.known)
               /\ l.outcome = "raised" => ~l.known /\ ~l.after

\* a project registered by a mergeChanges or getRepo call was looked up by
\* name alone
C10_Witness ==
    \E t \in Callers :
      LET l == frame[t].lookup
      IN  l.outcome = "handle" /\ l.url = NoUrl /\ l.known

\* C11: updateRepo never raises to its caller, whatever the project and url
\* (an unknown project without a url, a handle that failed to initialize).
C11_NeverRaises ==
    \A t \in Callers : frame[t].update.outcome # "raised"

\* a commit made by a speculative merge or cherry-pick
Speculative(c) == c.changes # <<>>

\* C12: no local branch head and no remote-tracking reference ever points at
\* a commit made by a speculative merge or cherry-pick: each is absent or a
\* tip the remote has published; such commits are held only by a detached
\* HEAD and by the references under refs/zuul; the merge path never pushes.
C12_RealBranchesUntouched ==
    /\ \A p \in Projects, b \in Branches :
         /\ ~Speculative(disk[p].heads[b])
         /\ ~Speculative(disk[p].tracking[b])
         /\ disk[p].heads[b] # NoCommit =>
              /\ disk[p].heads[b].branch = b
              /\ disk[p].heads[b].tip \in 1..remoteHeads[p][b]
    /\ \A p \in Projects :
         Speculative(disk[p].HEAD) => disk[p].attached = "detached"
    /\ \A t \in Callers :
         \A n \in 1..Len(frame[t].log) : frame[t].log[n].op # "push"

\* two changes were merged one on top of the other on a branch whose local
\* head had been reset, and published under refs/zuul
C12_Witness ==
    \E t \in Callers :
      LET f == frame[t]
      IN  /\ Finished(f) /\ f.ret.kind = "commit"
          /\ Len(f.ret.commit.changes) = 2
          /\ \E p \in Projects :
               /\ disk[p].HEAD = f.ret.commit
               /\ disk[p].heads["main"] # NoCommit
               /\ \E m \in MarkerNames : disk[p].zuul[m] = f.ret.commit

\* C13: when mergeChanges returns a commit, it is the commit of the last
\* item of the queue, and in that item's project the marker
\* <branch>/<ref> of that item resolves to it, whether the item was merged
\* or resolved by the short-circuit.
C13_ReturnedPublished ==
    \A t \in Callers :
      LET f == frame[t]
          last == ItemAt(f, Len(f.items))
      IN  (f.pc = "idle" /\ f.ret.kind = "commit") =>
            /\ Len(f.items) >= 1
            /\ Len(f.done) = Len(f.items)
            /\ f.ret.commit # NoCommit
            /\ f.ret.commit = f.done[Len(f.items)].commit
            /\ getCommitFromRef(disk[last.project],
                                <<last.branch, last.ref>>) = f.ret.commit

\* a queue of two items on different projects returned the commit of the
\* second, which was merged in this call after the first was resolved by
\* its marker
C13_Witness ==
    \E t \in Callers :
      LET f == frame[t]
      IN  /\ Finished(f) /\ f.ret.kind = "commit"
          /\ Len(f.items) = 2
          /\ ItemAt(f, 1).project # ItemAt(f, 2).project
          /\ f.done[1].hit /\ ~f.done[2].hit
          /\ HasChange(f.ret.commit, ItemAt(f, 2).refspec)

\* the log entry that may come right before entry x of an item (none: x may
\* also be the item's first entry)
MayFollow(x, prev) ==
    CASE x.op = "clone" -> prev.op = "clone" /\ prev.res = "fail"
      [] x.op = "marker_lookup" -> prev.op = "clone"
      [] x.op = "reset" -> prev.op = "marker_lookup" /\ prev.res = "miss"
      [] x.op = "branch_head" -> prev.op = "reset" /\ prev.res = "ok"
      [] x.op = "checkout" ->
           \/ prev.op = "branch_head" /\ prev.res = "ok"
           \/ prev.op = "marker_lookup" /\ prev.res = "miss"
      [] x.op \in {"fetch", "unsupported"} ->
           \/ prev.op = "checkout" /\ prev.res = "ok"
           \/ x.op = "fetch" /\ prev.op = "fetch" /\ prev.res = "transient"
      [] x.op \in {"merge", "cherry_pick"} ->
           prev.op = "fetch" /\ prev.res = "ok"
      [] x.op = "marker_write" ->
           /\ prev.op \in {"merge", "cherry_pick", "marker_write"}
           /\ prev.res = "ok"
      [] OTHER -> FALSE

MayBeFirst(x) == x.op \in {"clone", "marker_lookup"}

\* C14: the operations of an item come in the order credential selection,
\* handle lookup (with its clone), marker lookup, then for an item without
\* a marker: reset and branch-head read exactly when the cache has no entry
\* for the item's (project, branch), checkout, fetch, the one merge or
\* cherry-pick its mode selects, cache update, marker writes.  Each step
\* follows the success of the one before it.
C14_OperationOrder ==
    \A t \in Callers :
      LET f == frame[t]
          L == LogOf(f, f.idx)
          cached == f.snapRecent[Key(It(f))] # NoCommit
          has(op) == \E n \in 1..Len(L) : L[n].op = op
      IN  f.idx >= 1 =>
            /\ f.pc \in {"setssh", "getrepo"} => L = <<>>
            /\ f.pc \in {"getrepo", "lookup"} =>
                 gitSsh = setGitSsh(It(f).connection_name)
            /\ \A n \in 1..Len(L) :
                 IF n = 1 THEN MayBeFirst(L[n]) ELSE MayFollow(L[n], L[n - 1])
            /\ has("reset") => ~cached
            /\ has("branch_head") => ~cached
            /\ (has("checkout") /\ ~cached) =>
                 has("reset") /\ has("branch_head")
            /\ has("merge") =>
                 It(f).merge_mode \in {MERGER_MERGE, MERGER_MERGE_RESOLVE}
            /\ has("cherry_pick") => It(f).merge_mode = MERGER_CHERRY_PICK
            /\ has("marker_write") =>
                 /\ HasChange(f.recent[Key(It(f))], It(f).refspec)
                 /\ f.recent[Key(It(f))].changes =
                      Append(f.base.changes, It(f).refspec)
            /\ \A n \in 1..Len(L) :
                 (L[n].op = "marker_lookup" /\ L[n].res = "hit") => n = Len(L)

\* the second of two items on one (project, branch) was cherry-picked on the
\* cached base, without a reset, and published, after the first had been
\* reset, merged and published
C14_Witness ==
    \E t \in Callers :
      LET f == frame[t]
      IN  /\ Finished(f) /\ f.ret.kind = "commit"
          /\ f.idx = 2
          /\ Key(ItemAt(f, 1)) = Key(ItemAt(f, 2))
          /\ Len(OpsOf(f, 1, {"reset", "branch_head", "checkout", "fetch",
                              "merge", "marker_write"})) >= 6
          /\ OpsOf(f, 2, {"reset", "branch_head"}) = <<>>
          /\ Len(OpsOf(f, 2, {"checkout", "fetch", "cherry_pick",
                              "marker_write"})) >= 4

\* the operations that talk to the remote
NetworkOps == {"clone", "reset", "fetch"}

\* the GIT_SSH an item's operations are to run with
CredentialOf(it) ==
    IF it.connection_name \in Wrappers THEN it.connection_name ELSE NoSsh

\* C15: with one mergeChanges call at a time, every clone, reset and fetch
\* issued for an item runs with GIT_SSH naming the wrapper of the item's
\* connection, or with GIT_SSH unset when that connection has no wrapper;
\* from the item's selection to its end GIT_SSH has that value.
C15_CredentialMatchesItem ==
    \A t \in Callers :
      LET f == frame[t]
      IN  /\ \A n \in 1..Len(f.log) :
               f.log[n].op \in NetworkOps =>
                 f.log[n].cred = CredentialOf(ItemAt(f, f.log[n].i))
          /\ (f.idx >= 1 /\ f.pc \notin {"idle", "loop", "setssh"}) =>
               gitSsh = CredentialOf(It(f))

\* an item of a connection without a wrapper was fetched right after an
\* item of a connection with one
C15_Witness ==
    \E t \in Callers :
      LET f == frame[t]
      IN  /\ f.idx = 2
          /\ CredentialOf(ItemAt(f, 1)) = "c1"
          /\ CredentialOf(ItemAt(f, 2)) = NoSsh
          /\ \E n \in 1..Len(f.log) :
               f.log[n] = [i |-> 1, op |-> "fetch", res |-> "ok",
                           cred |-> "c1"]
          /\ \E n \in 1..Len(f.log) :
               f.log[n] = [i |-> 2, op |-> "fetch", res |-> "ok",
                           cred |-> NoSsh]

\* a network operation of caller t ran with another credential than the one
\* of the item it was issued for
Misused(t, n) ==
    /\ frame[t].log[n].op \in NetworkOps
    /\ frame[t].log[n].cred # CredentialOf(ItemAt(frame[t], frame[t].log[n].i))

\* C16: with two concurrent mergeChanges calls on disjoint projects, a
\* network operation runs with a credential other than its own item's only
\* by running with the one the other call has selected for its item; the
\* state C16_Witness shows that this does happen.
C16_OnlyByOverwrite ==
    \A t \in Callers :
      \A n \in 1..Len(frame[t].log) :
        Misused(t, n) =>
          \E u \in Callers \ {t} :
            /\ frame[u].idx >= 1
            /\ frame[u].pc # "setssh"
            /\ frame[t].log[n].cred = CredentialOf(It(frame[u]))

\* the fetch of one call's item ran with the credential the other call had
\* selected in between
C16_Witness ==
    \E t \in Callers :
      \E n \in 1..Len(frame[t].log) :
        /\ Misused(t, n)
        /\ frame[t].log[n].op = "fetch"
        /\ \E u \in Callers \ {t} :
             /\ frame[u].idx >= 1
             /\ ItemAt(frame[u], 1).project # ItemAt(frame[t], 1).project
             /\ frame[t].log[n].cred = CredentialOf(It(frame[u]))

\* what holds of the handles in every state
InitVisible ==
    /\ \A p \in Projects :
         /\ repos[p].initialized =>
              repos[p].gen # 0 /\ disk[p].cloned /\ disk[p].configured
         /\ (disk[p].zuul # NoRefs \/ Speculative(disk[p].HEAD)) =>
              repos[p].initialized
    /\ \A t \in Callers :
         LET f == frame[t]
         IN  /\ \A n \in 1..Len(f.log) :
                  (f.log[n].op # "clone"
                     /\ f.log[n].res \in {"ok", "hit", "miss"}) =>
                    repos[ItemAt(f, f.log[n].i).project].initialized
             /\ f.pc \in {"reset", "branchhead", "checkout", "apply", "merge",
                          "publish"} =>
                  repos[It(f).project].initialized
             /\ (f.update.outcome = "returned" /\ ~f.update.swallowed) =>
                  repos[f.update.project].initialized

\* what holds of the handles in every step
InitSticky ==
    \A p \in Projects :
      /\ repos[p].initialized => repos'[p].initialized
      /\ created'[p] # created[p] => repos'[p].gen # 0
      /\ (~repos[p].initialized /\ repos'[p].initialized) =>
           disk'[p].cloned /\ disk'[p].configured

\* C17: a handle is registered whether or not its clone and config write
\* succeeded; it reports initialized only once a working copy exists and
\* the config write completed, and from then on for ever; no operation on a
\* handle succeeds while it is not initialized.
C17_InitFailureSticky == []InitVisible /\ [][InitSticky]_vars

\* the clone failed when the handle was built and failed again at the
\* marker lookup: the handle is registered, not initialized, and the lookup
\* did not succeed
C17_Witness ==
    \E t \in Callers :
      LET f == frame[t]
      IN  /\ f.idx >= 1
          /\ Len(f.log) = 3
          /\ f.log[1].op = "clone" /\ f.log[1].res = "fail"
          /\ f.log[2].op = "clone" /\ f.log[2].res = "fail"
          /\ f.log[3].op = "marker_lookup" /\ f.log[3].res = "raise"
          /\ repos[It(f).project].gen # 0
          /\ ~repos[It(f).project].initialized

\* C18: when mergeChanges returns the failure value at item k, the marker
\* <k.branch>/<k.ref> in k's project is as it was when the item began: a
\* failed item does not leave behind the marker that would resolve it.
C18_NoMarkerOfFailedItem ==
    \A t \in Callers :
      LET f == frame[t]
          name == <<It(f).branch, It(f).ref>>
      IN  (f.pc = "idle" /\ f.idx >= 1 /\ f.ret.kind = "None") =>
            disk[It(f).project].zuul[name] = f.snapZuul[It(f).project][name]

\* C19: mergeChanges on an empty queue ends by returning the failure value;
\* it neither raises nor returns a commit.
C19_EmptyQueue ==
    \A t \in Callers :
      LET f == frame[t]
      IN  (f.pc = "idle" /\ f.items = <<>> /\ f.ret.kind # "none") =>
            f.ret = [kind |-> "None", commit |-> NoCommit]

====
